---- MODULE Spec2Model ----
(***************************************************************************)
(* Model of quilt's package transfer commands (tools/command.py):          *)
(*   install  - fetch a package tree, download, verify and commit objects  *)
(*   push     - negotiate upload URLs, upload objects with a worker pool,  *)
(*              then publish the tree and the 'latest' tag                 *)
(*   install, tag_add, version_add - the resolution of a selector (hash,   *)
(*              version, tag) to a package hash, with _match_hash          *)
(*   log      - the history log the registry keeps for a package, and its  *)
(*              readers                                                    *)
(*                                                                         *)
(* Contents of objects are small integers; a Digest is the symbolic term   *)
(* <<"sha256", c>> of the content c it was computed from, a compressed     *)
(* artifact is a sequence of chunks <<c, i>>.                              *)
(***************************************************************************)
EXTENDS Integers, Sequences, FiniteSets, TLC

----------------------------------------------------------------------------
(* Bounds of the model *)

\* number of distinct object contents (and so of digests)
NumContents == 2

\* number of CHUNK_SIZE chunks of one compressed artifact
ArtifactLen == 2

\* number of successive install invocations
MaxRuns == 2

\* number of upload worker threads of the pool (the program starts
\* PARALLEL_UPLOADS = 20 of them)
MaxWorkers == 2

\* number of characters of a full package hash (the program's have 64)
HashLen == 2

\* number of entries of a package's log
MaxLog == 2

----------------------------------------------------------------------------
(* Program constants *)

S3_TIMEOUT_RETRIES == 3

S3_CONNECT_TIMEOUT == 30

S3_READ_TIMEOUT == 30

\* Retry(total=3, ...)
RetryTotal == 3

----------------------------------------------------------------------------
(* Data *)

Contents == 1..NumContents

\* hashing.digest_file: the digest of a file's bytes
digest_file(c) == <<"sha256", c>>

Digests == {digest_file(c) : c \in Contents}

\* the order of sorted() on digests
DigestLess(d1, d2) == d1[2] < d2[2]

\* the bytes gzip produces for content c, in chunks
Gzip(c) == [i \in 1..ArtifactLen |-> <<c, i>>]

\* bytes that are no gzip stream
Garbage == [i \in 1..ArtifactLen |-> <<0, i>>]

BadGzip == -1

\* gzip.open(...).read(): the content, or a failure on a corrupt stream
Gunzip(bytes) ==
    IF \E c \in Contents : bytes = Gzip(c)
    THEN CHOOSE c \in Contents : bytes = Gzip(c)
    ELSE BadGzip

\* a content other than c
OtherContent(c) == (c % NumContents) + 1

\* what the object server may hold under the URL of digest_file(c): the
\* compressed object, another object compressed, or bytes that are no gzip
ArtifactsOf(c) == {Gzip(c), Gzip(OtherContent(c)), Garbage}

Artifacts == UNION {ArtifactsOf(c) : c \in Contents}

\* a path with no file
Absent == << <<-1, 0>> >>

NoObject == 0

PartialFile == -1

IsPrefix(s, t) == Len(s) <= Len(t) /\ s = SubSeq(t, 1, Len(s))

\* a package tree, reduced to the digests its leaves reference
Trees == {Digests, {digest_file(1)}}

\* core.hash_contents: the package hash of a tree
hash_contents(t) == <<"pkghash", t>>

\* core.find_object_hashes: every digest the tree references
find_object_hashes(t) == t

NoTree == {}

\* the key sets of the 'urls' mapping of a package response: every digest, or
\* all but one
UrlSets == {Digests} \cup {Digests \ {d} : d \in Digests}

----------------------------------------------------------------------------
(* State of install *)

VARIABLES
    ipc,          \* position of install
    runs,         \* install invocations so far
    pkghash,      \* the hash the selector resolved to
    contents,     \* response_contents
    urls,         \* keys of response_urls
    served,       \* the artifact the object server holds for each digest
    objects,      \* store.object_path(d): content of the file, NoObject if none
    stagingGz,    \* store.temporary_object_path(d + '.gz')
    tempObj,      \* store.temporary_object_path(d)
    pkgobj,       \* the package object install_package returned
    saved,        \* the contents save_contents recorded for the package
    todo,         \* digests of response_urls not yet iterated
    cur,          \* download_hash
    attempt,      \* loop variable of the attempt loop
    starting_length,
    request,      \* the GET in flight
    body,         \* the part of the response body not yet read
    content_range, \* the Content-Range header of the ok response last received
    status_code,  \* response.status_code of the response last received
    error,        \* the exception that ended install
    tries,        \* GETs issued for cur in this run
    dlReqs,       \* digests a GET was issued for in this run
    savedRun,     \* save_contents was called in this run
    replaced,     \* the digests whose object file move has overwritten
    install_force, \* the force argument of install
    overwrite     \* the answer read at the "Overwrite? (y/n) " prompt

ivars == <<ipc, runs, pkghash, contents, urls, served, objects, stagingGz, tempObj,
           pkgobj, saved, todo, cur, attempt, starting_length, request, body,
           content_range, status_code, error, tries, dlReqs, savedRun, replaced,
           install_force, overwrite>>

(* State of push *)

VARIABLES
    ppc,          \* position of the thread that called push
    reupload,     \* the reupload flag
    pcontents,    \* pkgobj.get_contents() of the local package
    upload_urls,  \* the digests the dry-run response gives URLs for
    obj_queue,    \* the shared work queue
    total,
    uploaded,     \* the shared list of uploaded digests
    lock,         \* the worker holding the lock, 0 if free
    wpc,          \* position of each worker thread
    obj_hash,     \* each worker's obj_hash
    wreq,         \* each worker's request in flight
    psent,        \* the registry requests push has sent, in order
    perror,       \* the exception that ended push
    headSent,     \* digests a HEAD was sent for
    putSent,      \* digests a PUT upload was sent for
    total_bytes,
    progress,     \* the counter of the tqdm progress bar
    compressed_read,       \* each worker's Context.compressed_read
    original_last_update,  \* each worker's Context.original_last_update
    fd_pos,       \* each worker's position in temp_file
    retries,      \* the retries left to each worker's request
    threads,      \* the worker threads push starts
    popped,       \* the digests popped from the queue, in order
    present,      \* the digests whose HEAD answered ok
    scheme,       \* the scheme of the URLs of upload_urls
    failed        \* the digests "Upload failed for" was written for

\* the state of one upload
cbVars == <<compressed_read, original_last_update, fd_pos, retries>>

pvars == <<ppc, reupload, pcontents, upload_urls, obj_queue, total, uploaded, lock,
           wpc, obj_hash, wreq, psent, perror, headSent, putSent, total_bytes,
           progress, cbVars, threads, scheme, popped, present, failed>>

(* State of the commands that resolve a package hash: install up to the
   request for the package, tag_add and version_add *)

VARIABLES
    rpc,          \* position of the command
    cmd,          \* the command called
    package,      \* the form of the package argument
    hash,         \* the hash argument
    version,      \* the version argument
    tag,          \* the tag argument
    force,
    valid,        \* Version(version) accepts the version string
    answer,       \* what the user answers to a prompt
    logs,         \* the hashes of the registry's log of the package, in order
    matched,      \* the hash the selector was resolved to
    rsent,        \* the registry requests the command has sent, in order
    store,        \* the command has opened the local store
    rerror,       \* the exception that ended the command
    given         \* the number of selectors the caller gave

rargs == <<cmd, package, hash, version, force, valid, answer, logs, given>>

rvars == <<rpc, rargs, tag, matched, rsent, store, rerror>>

(* State of the registry's history log of one package, and of its readers *)

VARIABLES
    reglog,       \* the history log the registry keeps for the package
    pushed,       \* the contents of the package instances pushed, in order
    response,     \* the last response of the log endpoint
    printed       \* the lines the log command printed last

gvars == <<reglog, pushed, response, printed>>

NoDigest == <<"sha256", 0>>

NoRequest == [method |-> "none", range |-> 0, timeout |-> <<0, 0>>]

NoTimeout == <<0, 0>>

NoContentRange == [form |-> "none", start |-> 0]

\* no response was received
NoStatus == 0

\* line 942: the exceptions `except requests.exceptions.ConnectionError`
\* catches. In requests, ConnectTimeout derives from ConnectionError and
\* Timeout, ReadTimeout from Timeout only.
IsConnectionError(e) == e \in {"ConnectionError", "ConnectTimeout"}


----------------------------------------------------------------------------
(* install *)

\* no answer was read
NoAnswer == ""

InitInstall(artifacts, stores, forces) ==
    /\ ipc = "idle"
    /\ runs = 0
    /\ pkghash = hash_contents(NoTree)
    /\ contents = NoTree
    /\ urls = {}
    /\ served \in artifacts
    /\ objects \in stores
    /\ stagingGz = [d \in Digests |-> Absent]
    /\ tempObj = [d \in Digests |-> NoObject]
    /\ pkgobj = NoTree
    /\ saved = NoTree
    /\ todo = {}
    /\ cur = NoDigest
    /\ attempt = 0
    /\ starting_length = 0
    /\ request = NoRequest
    /\ body = <<>>
    /\ content_range = NoContentRange
    /\ status_code = NoStatus
    /\ error = "none"
    /\ tries = 0
    /\ dlReqs = {}
    /\ savedRun = FALSE
    /\ replaced = {}
    /\ install_force \in forces
    /\ overwrite = NoAnswer

respVars == <<pkghash, contents, urls>>

fileVars == <<objects, stagingGz, tempObj>>

loopVars == <<todo, cur>>

getVars == <<attempt, starting_length, request, body>>

histVars == <<tries, dlReqs, savedRun, replaced>>

\* an exception leaves install
Raise(e) ==
    /\ ipc' = "failed"
    /\ error' = e
    /\ request' = NoRequest
    /\ body' = <<>>

\* lines 824-874: the selector is resolved to pkghash and the package is fetched
\* line 827: store.get_package(owner, pkg) finds the record of the package
existing_pkg == saved # NoTree

\* line 866: existing_pkg is not None and not force
Asks == existing_pkg /\ ~install_force

\* lines 824-870: the registry requests up to the package response, then the
\* prompt when the package is already installed and force is not set
InstallBegin ==
    /\ ipc \in {"idle", "done", "failed", "returned"}
    /\ runs < MaxRuns
    /\ \E h \in Trees, c \in Trees, u \in UrlSets :
         /\ pkghash' = hash_contents(h)
         /\ contents' = c
         /\ urls' = u
    /\ runs' = runs + 1
    /\ ipc' = IF Asks THEN "prompt" ELSE "verify"
    /\ overwrite' = NoAnswer
    /\ error' = "none"
    /\ pkgobj' = NoTree
    /\ todo' = {}
    /\ cur' = NoDigest
    /\ attempt' = 0
    /\ starting_length' = 0
    /\ tries' = 0
    /\ dlReqs' = {}
    /\ savedRun' = FALSE
    /\ content_range' = NoContentRange
    /\ status_code' = NoStatus
    /\ UNCHANGED <<pvars, rvars, gvars>>
    /\ UNCHANGED install_force
    /\ UNCHANGED <<served, fileVars, saved, request, body, replaced>>

ContentsHashOkAlways(h, c) == TRUE

\* line 877: pkghash != hash_contents(response_contents)
ContentsHashOk(h, c) == h = hash_contents(c)

\* lines 877-878
VerifyMismatch ==
    /\ ipc = "verify"
    /\ ~ContentsHashOk(pkghash, contents)
    /\ Raise("MismatchedHash")
    /\ UNCHANGED <<pvars, rvars, gvars>>
    /\ UNCHANGED <<install_force, overwrite>>
    /\ UNCHANGED status_code
    /\ UNCHANGED <<runs, respVars, served, fileVars, pkgobj, saved, loopVars,
                   attempt, starting_length, histVars, content_range>>

\* lines 877-884: store.install_package, then the loop over response_urls
VerifyOk ==
    /\ ipc = "verify"
    /\ ContentsHashOk(pkghash, contents)
    /\ pkgobj' = contents
    /\ todo' = urls
    /\ ipc' = "loop"
    /\ UNCHANGED <<pvars, rvars, gvars>>
    /\ UNCHANGED <<install_force, overwrite>>
    /\ UNCHANGED status_code
    /\ UNCHANGED <<runs, respVars, served, fileVars, saved, cur, getVars, error,
                   histVars, content_range>>

\* the first of sorted(iteritems(response_urls)) not yet iterated
NextHash == CHOOSE d \in todo : \A e \in todo : d = e \/ DigestLess(d, e)

FragmentInstalledNever(d) == FALSE

FragmentExists(d) == objects[d] # NoObject

\* lines 888-890: the file exists and digest_file(local_filename) == download_hash
FragmentInstalled(d) == objects[d] # NoObject /\ digest_file(objects[d]) = d

\* lines 884-892: "Fragment already installed; skipping."
SkipObject ==
    /\ ipc = "loop"
    /\ todo # {}
    /\ FragmentInstalled(NextHash)
    /\ cur' = NextHash
    /\ todo' = todo \ {NextHash}
    /\ UNCHANGED <<pvars, rvars, gvars>>
    /\ UNCHANGED <<install_force, overwrite>>
    /\ UNCHANGED status_code
    /\ UNCHANGED <<ipc, runs, respVars, served, fileVars, pkgobj, saved, getVars,
                   error, histVars, content_range>>

\* lines 884-899: open(temp_path_gz, 'ab') and enter the attempt loop
OpenStaging ==
    /\ ipc = "loop"
    /\ todo # {}
    /\ ~FragmentInstalled(NextHash)
    /\ cur' = NextHash
    /\ todo' = todo \ {NextHash}
    /\ stagingGz' = [stagingGz EXCEPT ![NextHash] =
                        IF @ = Absent THEN <<>> ELSE @]
    /\ attempt' = 0
    /\ tries' = 0
    /\ ipc' = "attempt"
    /\ UNCHANGED <<pvars, rvars, gvars>>
    /\ UNCHANGED <<install_force, overwrite>>
    /\ UNCHANGED status_code
    /\ UNCHANGED <<runs, respVars, served, objects, tempObj, pkgobj, saved,
                   starting_length, request, body, content_range, error, dlReqs,
                   savedRun, replaced>>

StartingLengthZero(f) == 0

\* line 901: output_file.tell() of a file opened for append: its length
StartingLength(f) == Len(f)

\* lines 901-909: the GET with its Range header and timeouts
SendGet ==
    /\ ipc = "attempt"
    /\ starting_length' = StartingLength(stagingGz[cur])
    /\ request' = [method |-> "GET", range |-> starting_length',
                   timeout |-> <<S3_CONNECT_TIMEOUT, S3_READ_TIMEOUT>>]
    /\ tries' = tries + 1
    /\ dlReqs' = dlReqs \cup {cur}
    /\ content_range' = NoContentRange
    /\ status_code' = NoStatus
    /\ ipc' = "get_wait"
    /\ UNCHANGED <<pvars, rvars, gvars>>
    /\ UNCHANGED <<install_force, overwrite>>
    /\ UNCHANGED <<runs, respVars, served, fileVars, pkgobj, saved, loopVars,
                   attempt, body, error, savedRun, replaced>>

CanRetryOnceMore(a) == a < S3_TIMEOUT_RETRIES

\* line 943: attempt < S3_TIMEOUT_RETRIES - 1
CanRetry(a) == a < S3_TIMEOUT_RETRIES - 1

\* lines 942-946: the except clause of the attempt loop, for exception e
Except(e) ==
    IF IsConnectionError(e) /\ CanRetry(attempt)
    THEN /\ attempt' = attempt + 1
         /\ ipc' = "attempt"
         /\ request' = NoRequest
         /\ body' = <<>>
         /\ UNCHANGED error
    ELSE /\ Raise(e)
         /\ UNCHANGED attempt

\* the connection cannot be established or is reset before a response arrives
GetConnectionError ==
    /\ ipc = "get_wait"
    /\ Except("ConnectionError")
    /\ UNCHANGED <<pvars, rvars, gvars>>
    /\ UNCHANGED <<install_force, overwrite>>
    /\ UNCHANGED status_code
    /\ UNCHANGED <<runs, respVars, served, fileVars, pkgobj, saved, loopVars,
                   starting_length, histVars, content_range>>

\* the peer accepts the request and never answers
GetStall ==
    /\ ipc = "get_wait"
    /\ ipc' = "stalled"
    /\ UNCHANGED <<pvars, rvars, gvars>>
    /\ UNCHANGED <<install_force, overwrite>>
    /\ UNCHANGED status_code
    /\ UNCHANGED <<runs, respVars, served, fileVars, pkgobj, saved, loopVars,
                   getVars, error, histVars, content_range>>

\* line 908: the connect or the read timeout of the request expires
GetTimeout ==
    /\ ipc = "stalled"
    /\ request.timeout # NoTimeout
    /\ \E e \in {"ConnectTimeout", "ReadTimeout"} : Except(e)
    /\ UNCHANGED <<pvars, rvars, gvars>>
    /\ UNCHANGED <<install_force, overwrite>>
    /\ UNCHANGED status_code
    /\ UNCHANGED <<runs, respVars, served, fileVars, pkgobj, saved, loopVars,
                   starting_length, histVars, content_range>>

\* requests.codes.RANGE_NOT_SATISFIABLE
RANGE_NOT_SATISFIABLE == 416

\* the statuses with which the object server refuses a request
ErrorStatuses == {404, 500, 503}

\* the statuses that are not ok with which the object server may answer the
\* request in flight: 416 when the range starts at or after the end of the
\* artifact
RefusalStatuses ==
    ErrorStatuses \cup
        (IF request.range >= Len(served[cur]) THEN {RANGE_NOT_SATISFIABLE} ELSE {})

IsRangeNotSatisfiableNever(sc) == FALSE

\* line 912: response.status_code == requests.codes.RANGE_NOT_SATISFIABLE
IsRangeNotSatisfiable(sc) == sc = RANGE_NOT_SATISFIABLE

\* response.ok: the status is no client or server error
ResponseOk(sc) == sc < 400

\* lines 911-912, 941: 416 means the whole file is there already
GetRangeNotSatisfiable ==
    /\ ipc = "get_wait"
    /\ \E sc \in RefusalStatuses :
         /\ IsRangeNotSatisfiable(sc)
         /\ status_code' = sc
    /\ ipc' = "gunzip"
    /\ request' = NoRequest
    /\ UNCHANGED <<pvars, rvars, gvars>>
    /\ UNCHANGED <<install_force, overwrite>>
    /\ UNCHANGED <<runs, respVars, served, fileVars, pkgobj, saved, loopVars,
                   attempt, starting_length, body, error, histVars, content_range>>

\* lines 912-917: any other status that is not ok: "Download failed"
GetNotOk ==
    /\ ipc = "get_wait"
    /\ \E sc \in RefusalStatuses :
         /\ ~IsRangeNotSatisfiable(sc)
         /\ ~ResponseOk(sc)
         /\ status_code' = sc
    /\ Raise("DownloadFailed")
    /\ UNCHANGED <<pvars, rvars, gvars>>
    /\ UNCHANGED <<install_force, overwrite>>
    /\ UNCHANGED <<runs, respVars, served, fileVars, pkgobj, saved, loopVars,
                   attempt, starting_length, histVars, content_range>>

\* the Content-Range headers a response may carry: none, one the pattern
\* rejects, or 'bytes <start>-<end>/<total>'
ContentRanges ==
    {[form |-> f, start |-> 0] : f \in {"absent", "malformed"}}
        \cup {[form |-> "range", start |-> s] : s \in 0..(ArtifactLen - 1)}

ContentRangeOkAny(cr, start) == cr.form = "range"

\* lines 926-928: CONTENT_RANGE_RE matches and group(1) == starting_length
ContentRangeOk(cr, start) == cr.form = "range" /\ cr.start = start

\* the status of an ok response: 206 with a Content-Range header, 200 without
OkStatus(cr) == IF cr.form = "absent" THEN 200 ELSE 206

\* lines 926-929: "Unexpected Content-Range"
GetBadContentRange ==
    /\ ipc = "get_wait"
    /\ \E cr \in ContentRanges :
         /\ ~ContentRangeOk(cr, starting_length)
         /\ content_range' = cr
         /\ status_code' = OkStatus(cr)
    /\ Raise("UnexpectedContentRange")
    /\ UNCHANGED <<pvars, rvars, gvars>>
    /\ UNCHANGED <<install_force, overwrite>>
    /\ UNCHANGED <<runs, respVars, served, fileVars, pkgobj, saved, loopVars,
                   attempt, starting_length, histVars>>

\* lines 926-937: an ok response; the server sends the artifact from cr.start on
GetOk ==
    /\ ipc = "get_wait"
    /\ \E cr \in ContentRanges :
         /\ ContentRangeOk(cr, starting_length)
         /\ content_range' = cr
         /\ status_code' = OkStatus(cr)
         /\ body' = SubSeq(served[cur], cr.start + 1, Len(served[cur]))
    /\ ipc' = "stream"
    /\ request' = NoRequest
    /\ UNCHANGED <<pvars, rvars, gvars>>
    /\ UNCHANGED <<install_force, overwrite>>
    /\ UNCHANGED <<runs, respVars, served, fileVars, pkgobj, saved, loopVars,
                   attempt, starting_length, error, histVars>>

\* lines 937-939: one chunk of iter_content is written
WriteChunk ==
    /\ ipc = "stream"
    /\ body # <<>>
    /\ stagingGz' = [stagingGz EXCEPT ![cur] = Append(@, Head(body))]
    /\ body' = Tail(body)
    /\ UNCHANGED <<pvars, rvars, gvars>>
    /\ UNCHANGED <<install_force, overwrite>>
    /\ UNCHANGED status_code
    /\ UNCHANGED <<ipc, runs, respVars, served, objects, tempObj, pkgobj, saved,
                   loopVars, attempt, starting_length, request, error, histVars, content_range>>

\* lines 937, 941: the body is exhausted: break
StreamEnd ==
    /\ ipc = "stream"
    /\ body = <<>>
    /\ ipc' = "gunzip"
    /\ UNCHANGED <<pvars, rvars, gvars>>
    /\ UNCHANGED <<install_force, overwrite>>
    /\ UNCHANGED status_code
    /\ UNCHANGED <<runs, respVars, served, fileVars, pkgobj, saved, loopVars,
                   getVars, error, histVars, content_range>>

\* lines 937, 942: iter_content raises ConnectionError when reading the body,
\* or waiting for its end, times out
StreamInterrupted ==
    /\ ipc = "stream"
    /\ Except("ConnectionError")
    /\ UNCHANGED <<pvars, rvars, gvars>>
    /\ UNCHANGED <<install_force, overwrite>>
    /\ UNCHANGED status_code
    /\ UNCHANGED <<runs, respVars, served, fileVars, pkgobj, saved, loopVars,
                   starting_length, histVars, content_range>>

\* lines 949-955: gzip fails on a corrupt stream; open(temp_path, 'wb') has
\* created temp_path, the finally clause removes only temp_path_gz
GunzipFails ==
    /\ ipc = "gunzip"
    /\ Gunzip(stagingGz[cur]) = BadGzip
    /\ tempObj' = [tempObj EXCEPT ![cur] = PartialFile]
    /\ stagingGz' = [stagingGz EXCEPT ![cur] = Absent]
    /\ Raise("GzipError")
    /\ UNCHANGED <<pvars, rvars, gvars>>
    /\ UNCHANGED <<install_force, overwrite>>
    /\ UNCHANGED status_code
    /\ UNCHANGED <<runs, respVars, served, objects, pkgobj, saved, loopVars,
                   attempt, starting_length, histVars, content_range>>

FileHashOkAlways(file_hash, download_hash) == TRUE

\* line 959: file_hash != download_hash
FileHashOk(file_hash, download_hash) == file_hash = download_hash

\* lines 949-962: the artifact is decompressed into temp_path, the staging
\* file removed; "Fragment hashes do not match": temp_path is removed
CheckMismatch ==
    /\ ipc = "gunzip"
    /\ Gunzip(stagingGz[cur]) # BadGzip
    /\ ~FileHashOk(digest_file(Gunzip(stagingGz[cur])), cur)
    /\ stagingGz' = [stagingGz EXCEPT ![cur] = Absent]
    /\ tempObj' = [tempObj EXCEPT ![cur] = NoObject]
    /\ Raise("FragmentHashMismatch")
    /\ UNCHANGED <<pvars, rvars, gvars>>
    /\ UNCHANGED <<install_force, overwrite>>
    /\ UNCHANGED status_code
    /\ UNCHANGED <<runs, respVars, served, objects, pkgobj, saved,
                   loopVars, attempt, starting_length, histVars, content_range>>

\* lines 949-964: decompressed, staging file removed, hash equal:
\* move(temp_path, local_filename)
CheckOkMove ==
    /\ ipc = "gunzip"
    /\ Gunzip(stagingGz[cur]) # BadGzip
    /\ FileHashOk(digest_file(Gunzip(stagingGz[cur])), cur)
    /\ stagingGz' = [stagingGz EXCEPT ![cur] = Absent]
    /\ objects' = [objects EXCEPT ![cur] = Gunzip(stagingGz[cur])]
    /\ tempObj' = [tempObj EXCEPT ![cur] = NoObject]
    /\ replaced' = IF objects[cur] # NoObject THEN replaced \cup {cur} ELSE replaced
    /\ ipc' = "loop"
    /\ UNCHANGED <<pvars, rvars, gvars>>
    /\ UNCHANGED <<install_force, overwrite>>
    /\ UNCHANGED status_code
    /\ UNCHANGED <<runs, respVars, served, pkgobj, saved, loopVars,
                   getVars, error, tries, dlReqs, savedRun, content_range>>

\* line 966: pkgobj.save_contents() once response_urls is exhausted
SaveContents ==
    /\ ipc = "loop"
    /\ todo = {}
    /\ saved' = pkgobj
    /\ savedRun' = TRUE
    /\ ipc' = "done"
    /\ UNCHANGED <<pvars, rvars, gvars>>
    /\ UNCHANGED <<install_force, overwrite>>
    /\ UNCHANGED status_code
    /\ UNCHANGED <<runs, respVars, served, fileVars, pkgobj, loopVars, getVars,
                   content_range, error, tries, dlReqs, replaced>>

InstallNext ==
    \/ InstallBegin
    \/ VerifyMismatch
    \/ VerifyOk
    \/ SkipObject
    \/ OpenStaging
    \/ SendGet
    \/ GetConnectionError
    \/ GetStall
    \/ GetTimeout
    \/ GetRangeNotSatisfiable
    \/ GetNotOk
    \/ GetBadContentRange
    \/ GetOk
    \/ WriteChunk
    \/ StreamEnd
    \/ StreamInterrupted
    \/ GunzipFails
    \/ CheckMismatch
    \/ CheckOkMove
    \/ SaveContents

----------------------------------------------------------------------------
(* push *)

Workers == 1..MaxWorkers

\* lines 641-644: the pool of threads push starts. The program starts
\* PARALLEL_UPLOADS of them whatever the number of objects; the model runs
\* pools of every width up to MaxWorkers, narrower and wider than the queue.
Pools == {1..n : n \in 1..MaxWorkers}

NoLock == 0

LockFreeAlways == TRUE

\* line 589: the lock can be acquired
LockFree == lock = NoLock

\* lines 568, 597: os.path.getsize of the object file, in bytes
getsize(d) == 2 * d[2] - 1

\* lines 602-603: the size of the gzip'ed temporary file
compressed_size(d) == Len(Gzip(d[2]))

RECURSIVE SumSizes(_)
\* lines 566-568
SumSizes(S) ==
    IF S = {} THEN 0
    ELSE LET d == CHOOSE e \in S : TRUE IN getsize(d) + SumSizes(S \ {d})

\* line 613
OriginalRead(read, original_size, size) == (read * original_size) \div size

\* sorted(set(...), reverse=True)
SortedReverse(S) ==
    CHOOSE q \in [1..Cardinality(S) -> S] :
        \A i, j \in 1..Cardinality(S) : i < j => DigestLess(q[j], q[i])

\* lines 583-586: the retries of a request. The adapter with the Retry
\* policy is mounted for 'https://' only; the session's adapter for
\* 'http://' is the default one, which does not retry.
MaxRetries(sch) == IF sch = "https" THEN RetryTotal ELSE 0

InitPush(flags, trees, pools, schemes) ==
    /\ ppc = "idle"
    /\ threads \in pools
    /\ scheme \in schemes
    /\ total_bytes = 0
    /\ progress = 0
    /\ compressed_read = [w \in Workers |-> 0]
    /\ original_last_update = [w \in Workers |-> 0]
    /\ fd_pos = [w \in Workers |-> 0]
    /\ retries = [w \in Workers |-> MaxRetries(scheme)]
    /\ popped = <<>>
    /\ present = {}
    /\ failed = {}
    /\ reupload \in flags
    /\ pcontents \in trees
    /\ upload_urls = {}
    /\ obj_queue = <<>>
    /\ total = 0
    /\ uploaded = <<>>
    /\ lock = NoLock
    /\ wpc = [w \in Workers |-> "unborn"]
    /\ obj_hash = [w \in Workers |-> NoDigest]
    /\ wreq = [w \in Workers |-> NoRequest]
    /\ psent = <<>>
    /\ perror = "none"
    /\ headSent = {}
    /\ putSent = {}

\* lines 559-561: the dry-run PUT is refused; _handle_response raises
PushDryRunFails ==
    /\ ppc = "idle"
    /\ psent' = Append(psent, "dry_run")
    /\ ppc' = "failed"
    /\ perror' = "CommandException"
    /\ UNCHANGED <<ivars, rvars, gvars>>
    /\ UNCHANGED <<total_bytes, progress, cbVars, threads, scheme, popped, present>>
    /\ UNCHANGED <<reupload, pcontents, upload_urls, obj_queue, total, uploaded,
                   lock, wpc, obj_hash, wreq, headSent, putSent, failed>>

\* lines 559-647: the dry-run PUT, the work queue, the worker threads start
\* (the local store holds every object of the package, so getsize succeeds)
PushDryRun ==
    /\ ppc = "idle"
    /\ psent' = Append(psent, "dry_run")
    /\ upload_urls' \in SUBSET find_object_hashes(pcontents)
    /\ obj_queue' = SortedReverse(find_object_hashes(pcontents))
    /\ total' = Len(obj_queue')
    /\ uploaded' = <<>>
    /\ total_bytes' = SumSizes(find_object_hashes(pcontents))
    /\ progress' = 0
    /\ wpc' = [w \in Workers |-> IF w \in threads THEN "loop" ELSE "unborn"]
    /\ ppc' = "uploading"
    /\ UNCHANGED <<ivars, rvars, gvars>>
    /\ UNCHANGED <<cbVars, threads, scheme, popped, present>>
    /\ UNCHANGED <<reupload, pcontents, lock, obj_hash, wreq, perror, headSent,
                   putSent, failed>>

\* line 589: with lock
AcquirePop(w) ==
    /\ wpc[w] = "loop"
    /\ LockFree
    /\ lock' = w
    /\ wpc' = [wpc EXCEPT ![w] = "pop"]
    /\ UNCHANGED <<ivars, rvars, gvars>>
    /\ UNCHANGED <<total_bytes, progress, cbVars, threads, scheme, popped, present>>
    /\ UNCHANGED <<ppc, reupload, pcontents, upload_urls, obj_queue, total,
                   uploaded, obj_hash, wreq, psent, perror, headSent, putSent, failed>>

\* lines 590-591: the queue is empty, the worker ends
PopBreak(w) ==
    /\ wpc[w] = "pop"
    /\ obj_queue = <<>>
    /\ lock' = NoLock
    /\ wpc' = [wpc EXCEPT ![w] = "finished"]
    /\ UNCHANGED <<ivars, rvars, gvars>>
    /\ UNCHANGED <<total_bytes, progress, cbVars, threads, scheme, popped, present>>
    /\ UNCHANGED <<ppc, reupload, pcontents, upload_urls, obj_queue, total,
                   uploaded, obj_hash, wreq, psent, perror, headSent, putSent, failed>>

\* line 592: obj_hash = obj_queue.pop()
Pop(w) ==
    /\ wpc[w] = "pop"
    /\ obj_queue # <<>>
    /\ obj_hash' = [obj_hash EXCEPT ![w] = obj_queue[Len(obj_queue)]]
    /\ obj_queue' = SubSeq(obj_queue, 1, Len(obj_queue) - 1)
    /\ lock' = NoLock
    /\ wpc' = [wpc EXCEPT ![w] = "lookup"]
    /\ popped' = Append(popped, obj_queue[Len(obj_queue)])
    /\ UNCHANGED <<ivars, rvars, gvars>>
    /\ UNCHANGED <<total_bytes, progress, cbVars, threads, scheme, present>>
    /\ UNCHANGED <<ppc, reupload, pcontents, upload_urls, total, uploaded, wreq,
                   psent, perror, headSent, putSent, failed>>

\* line 595: upload_urls[obj_hash] raises KeyError, which the except clause
\* of line 629 does not catch: the thread ends
LookupKeyError(w) ==
    /\ wpc[w] = "lookup"
    /\ obj_hash[w] \notin upload_urls
    /\ wpc' = [wpc EXCEPT ![w] = "dead"]
    /\ UNCHANGED <<ivars, rvars, gvars>>
    /\ UNCHANGED <<total_bytes, progress, cbVars, threads, scheme, popped, present>>
    /\ UNCHANGED <<ppc, reupload, pcontents, upload_urls, obj_queue, total,
                   uploaded, lock, obj_hash, wreq, psent, perror, headSent,
                   putSent, failed>>

\* line 599: s3_session.head(obj_urls['head']), called without a timeout
HeadRequest == [method |-> "HEAD", range |-> 0, timeout |-> NoTimeout]

\* line 620: s3_session.put(url, data=fd, headers=headers), without a timeout
PutRequest == [method |-> "PUT", range |-> 0, timeout |-> NoTimeout]

\* lines 583-586, 604-609: temp_file.seek(0), class Context of one upload and
\* the retries of one request; the model keeps the fields at their initial
\* values outside of an upload
NewContext(w) ==
    /\ compressed_read' = [compressed_read EXCEPT ![w] = 0]
    /\ original_last_update' = [original_last_update EXCEPT ![w] = 0]
    /\ fd_pos' = [fd_pos EXCEPT ![w] = 0]
    /\ retries' = [retries EXCEPT ![w] = MaxRetries(scheme)]

\* lines 595-599: the existence check is sent unless reupload is set
SendHead(w) ==
    /\ wpc[w] = "lookup"
    /\ obj_hash[w] \in upload_urls
    /\ ~reupload
    /\ wreq' = [wreq EXCEPT ![w] = HeadRequest]
    /\ headSent' = headSent \cup {obj_hash[w]}
    /\ wpc' = [wpc EXCEPT ![w] = "head_wait"]
    /\ UNCHANGED <<ivars, rvars, gvars>>
    /\ UNCHANGED <<total_bytes, progress, cbVars, threads, scheme, popped, present>>
    /\ UNCHANGED <<ppc, reupload, pcontents, upload_urls, obj_queue, total,
                   uploaded, lock, obj_hash, psent, perror, putSent, failed>>

\* lines 599-620 with reupload: the object is compressed and the PUT sent
SendPutReupload(w) ==
    /\ wpc[w] = "lookup"
    /\ obj_hash[w] \in upload_urls
    /\ reupload
    /\ wreq' = [wreq EXCEPT ![w] = PutRequest]
    /\ putSent' = putSent \cup {obj_hash[w]}
    /\ wpc' = [wpc EXCEPT ![w] = "put_wait"]
    /\ NewContext(w)
    /\ UNCHANGED <<ivars, rvars, gvars>>
    /\ UNCHANGED <<total_bytes, progress, threads, scheme, popped, present>>
    /\ UNCHANGED <<ppc, reupload, pcontents, upload_urls, obj_queue, total,
                   uploaded, lock, obj_hash, psent, perror, headSent, failed>>

MustUploadAlways(re, ok) == TRUE

\* line 599: reupload or not s3_session.head(obj_urls['head']).ok
MustUpload(re, ok) == re \/ ~ok

\* lines 599, 622: the HEAD answers ok, the object is there
HeadOk(w) ==
    /\ wpc[w] = "head_wait"
    /\ present' = present \cup {obj_hash[w]}
    /\ IF MustUpload(reupload, TRUE)
       THEN /\ wreq' = [wreq EXCEPT ![w] = PutRequest]
            /\ putSent' = putSent \cup {obj_hash[w]}
            /\ wpc' = [wpc EXCEPT ![w] = "put_wait"]
       ELSE /\ wreq' = [wreq EXCEPT ![w] = NoRequest]
            /\ wpc' = [wpc EXCEPT ![w] = "skip"]
            /\ UNCHANGED putSent
    /\ UNCHANGED <<ivars, rvars, gvars>>
    /\ UNCHANGED <<total_bytes, progress, cbVars, threads, scheme, popped>>
    /\ UNCHANGED <<ppc, reupload, pcontents, upload_urls, obj_queue, total,
                   uploaded, lock, obj_hash, psent, perror, headSent, failed>>

\* lines 599-620: the HEAD answers not ok: compress and send the PUT
HeadNotOk(w) ==
    /\ wpc[w] = "head_wait"
    /\ MustUpload(reupload, FALSE)
    /\ wreq' = [wreq EXCEPT ![w] = PutRequest]
    /\ putSent' = putSent \cup {obj_hash[w]}
    /\ wpc' = [wpc EXCEPT ![w] = "put_wait"]
    /\ NewContext(w)
    /\ UNCHANGED <<ivars, rvars, gvars>>
    /\ UNCHANGED <<total_bytes, progress, threads, scheme, popped, present>>
    /\ UNCHANGED <<ppc, reupload, pcontents, upload_urls, obj_queue, total,
                   uploaded, lock, obj_hash, psent, perror, headSent, failed>>

\* the exceptions head, put and raise_for_status raise
RequestErrors == {"ConnectionError", "RetryError", "HTTPError"}

IsRequestExceptionNone(e) == FALSE

\* line 629: except requests.exceptions.RequestException, the base class of
\* the exceptions of requests
IsRequestException(e) == e \in RequestErrors

\* lines 599/620-621, 629: the request raises a RequestException (connection
\* error, retries exhausted, raise_for_status on an error status)
RequestFails(w) ==
    /\ wpc[w] \in {"head_wait", "put_wait"}
    /\ wreq' = [wreq EXCEPT ![w] = NoRequest]
    /\ \E e \in RequestErrors :
         /\ e = "HTTPError" => wpc[w] = "put_wait"
         /\ wpc' = [wpc EXCEPT ![w] = IF IsRequestException(e) THEN "report"
                                      ELSE "dead"]
    /\ NewContext(w)
    /\ UNCHANGED <<ivars, rvars, gvars>>
    /\ UNCHANGED <<total_bytes, progress, threads, scheme, popped, present>>
    /\ UNCHANGED <<ppc, reupload, pcontents, upload_urls, obj_queue, total,
                   uploaded, lock, obj_hash, psent, perror, headSent, putSent, failed>>

\* the peer accepts the request and never answers
PeerStalls(w) ==
    /\ wpc[w] \in {"head_wait", "put_wait"}
    /\ wpc' = [wpc EXCEPT ![w] = "stalled"]
    /\ UNCHANGED <<ivars, rvars, gvars>>
    /\ UNCHANGED <<total_bytes, progress, cbVars, threads, scheme, popped, present>>
    /\ UNCHANGED <<ppc, reupload, pcontents, upload_urls, obj_queue, total,
                   uploaded, lock, obj_hash, wreq, psent, perror, headSent,
                   putSent, failed>>

\* lines 611-613, 618-620: the transport reads count bytes of the body from
\* FileWithReadProgress, which calls _progress_cb(count); a read at the end
\* of the file returns nothing and reports 0
ReadBody(w) ==
    /\ wpc[w] = "put_wait"
    /\ \E count \in 0..(compressed_size(obj_hash[w]) - fd_pos[w]) :
         /\ count = 0 => fd_pos[w] = compressed_size(obj_hash[w])
         /\ fd_pos' = [fd_pos EXCEPT ![w] = @ + count]
         /\ compressed_read' = [compressed_read EXCEPT ![w] = @ + count]
    /\ wpc' = [wpc EXCEPT ![w] = "cb"]
    /\ UNCHANGED <<ivars, rvars, gvars>>
    /\ UNCHANGED <<total_bytes, progress, original_last_update, retries, threads, scheme,
                   popped, present>>
    /\ UNCHANGED <<ppc, reupload, pcontents, upload_urls, obj_queue, total,
                   uploaded, lock, obj_hash, wreq, psent, perror, headSent, putSent, failed>>

\* lines 613-616: progress.update(original_read - original_last_update)
ProgressUpdate(w) ==
    /\ wpc[w] = "cb_locked"
    /\ LET original_read == OriginalRead(compressed_read[w], getsize(obj_hash[w]),
                                         compressed_size(obj_hash[w]))
       IN /\ progress' = progress + (original_read - original_last_update[w])
          /\ original_last_update' = [original_last_update EXCEPT ![w] = original_read]
    /\ lock' = NoLock
    /\ wpc' = [wpc EXCEPT ![w] = "put_wait"]
    /\ UNCHANGED <<ivars, rvars, gvars>>
    /\ UNCHANGED <<total_bytes, compressed_read, fd_pos, retries, threads, scheme, popped,
                   present>>
    /\ UNCHANGED <<ppc, reupload, pcontents, upload_urls, obj_queue, total,
                   uploaded, obj_hash, wreq, psent, perror, headSent, putSent, failed>>

\* Retry(status_forcelist=[500, 502, 503, 504])
StatusForcelist == {500, 502, 503, 504}

\* lines 599, 620: the request is answered with a status of StatusForcelist
\* (a PUT once its whole body was sent)
ServerError(w) ==
    /\ wpc[w] \in {"head_wait", "put_wait"}
    /\ wpc[w] = "put_wait" => fd_pos[w] = compressed_size(obj_hash[w])
    /\ \E sc \in StatusForcelist : wpc' = [wpc EXCEPT ![w] = "status_5xx"]
    /\ UNCHANGED <<ivars, rvars, gvars>>
    /\ UNCHANGED <<total_bytes, progress, cbVars, threads, scheme, popped, present>>
    /\ UNCHANGED <<ppc, reupload, pcontents, upload_urls, obj_queue, total,
                   uploaded, lock, obj_hash, wreq, psent, perror, headSent,
                   putSent, failed>>

\* lines 583-586, 599: the adapter sends the HEAD again
HeadRetried(w) ==
    /\ wpc[w] = "status_5xx"
    /\ wreq[w] = HeadRequest
    /\ retries[w] > 0
    /\ retries' = [retries EXCEPT ![w] = @ - 1]
    /\ wpc' = [wpc EXCEPT ![w] = "head_wait"]
    /\ UNCHANGED <<ivars, rvars, gvars>>
    /\ UNCHANGED <<total_bytes, progress, compressed_read, original_last_update,
                   fd_pos, threads, scheme, popped, present>>
    /\ UNCHANGED <<ppc, reupload, pcontents, upload_urls, obj_queue, total,
                   uploaded, lock, obj_hash, wreq, psent, perror, headSent,
                   putSent, failed>>

\* lines 583-586, 620: the adapter sends the PUT again with the same fd as
\* its body. The transport either seeks the body back to where it was before
\* the first attempt and reads it again, or reads on from where it is, the
\* end of the file.
PutRetried(w) ==
    /\ wpc[w] = "status_5xx"
    /\ wreq[w] = PutRequest
    /\ retries[w] > 0
    /\ retries' = [retries EXCEPT ![w] = @ - 1]
    /\ \E rewound \in BOOLEAN :
         fd_pos' = [fd_pos EXCEPT ![w] = IF rewound THEN 0 ELSE @]
    /\ wpc' = [wpc EXCEPT ![w] = "put_wait"]
    /\ UNCHANGED <<ivars, rvars, gvars>>
    /\ UNCHANGED <<total_bytes, progress, compressed_read, original_last_update,
                   threads, scheme, popped, present>>
    /\ UNCHANGED <<ppc, reupload, pcontents, upload_urls, obj_queue, total,
                   uploaded, lock, obj_hash, wreq, psent, perror, headSent,
                   putSent, failed>>

\* lines 583-586, 629: no retry is left to the adapter of 'https://', the
\* request raises RetryError
RetriesExhausted(w) ==
    /\ wpc[w] = "status_5xx"
    /\ scheme = "https"
    /\ retries[w] = 0
    /\ wreq' = [wreq EXCEPT ![w] = NoRequest]
    /\ wpc' = [wpc EXCEPT ![w] = IF IsRequestException("RetryError") THEN "report"
                                 ELSE "dead"]
    /\ NewContext(w)
    /\ UNCHANGED <<ivars, rvars, gvars>>
    /\ UNCHANGED <<total_bytes, progress, threads, scheme, popped, present>>
    /\ UNCHANGED <<ppc, reupload, pcontents, upload_urls, obj_queue, total,
                   uploaded, lock, obj_hash, psent, perror, headSent, putSent, failed>>

\* lines 599-621, 629: the adapter of 'http://' returns the response: a HEAD
\* that is not ok is followed by the PUT, for a PUT raise_for_status raises
\* HTTPError
ErrorReturned(w) ==
    /\ wpc[w] = "status_5xx"
    /\ scheme # "https"
    /\ IF wreq[w] = HeadRequest /\ MustUpload(reupload, FALSE)
       THEN /\ wreq' = [wreq EXCEPT ![w] = PutRequest]
            /\ putSent' = putSent \cup {obj_hash[w]}
            /\ wpc' = [wpc EXCEPT ![w] = "put_wait"]
       ELSE /\ wreq' = [wreq EXCEPT ![w] = NoRequest]
            /\ wpc' = [wpc EXCEPT ![w] = IF IsRequestException("HTTPError")
                                         THEN "report" ELSE "dead"]
            /\ UNCHANGED putSent
    /\ NewContext(w)
    /\ UNCHANGED <<ivars, rvars, gvars>>
    /\ UNCHANGED <<total_bytes, progress, threads, scheme, popped, present>>
    /\ UNCHANGED <<ppc, reupload, pcontents, upload_urls, obj_queue, total,
                   uploaded, lock, obj_hash, psent, perror, headSent, failed>>

\* lines 620-621: the whole body was sent and the PUT answers ok
PutOk(w) ==
    /\ wpc[w] = "put_wait"
    /\ fd_pos[w] = compressed_size(obj_hash[w])
    /\ wreq' = [wreq EXCEPT ![w] = NoRequest]
    /\ wpc' = [wpc EXCEPT ![w] = "append"]
    /\ NewContext(w)
    /\ UNCHANGED <<ivars, rvars, gvars>>
    /\ UNCHANGED <<total_bytes, progress, threads, scheme, popped, present>>
    /\ UNCHANGED <<ppc, reupload, pcontents, upload_urls, obj_queue, total,
                   uploaded, lock, obj_hash, psent, perror, headSent, putSent, failed>>

\* lines 614, 623, 627, 638: with lock
AcquireLock(w) ==
    /\ wpc[w] \in {"skip", "append", "report", "cb"}
    /\ LockFree
    /\ lock' = w
    /\ wpc' = [wpc EXCEPT ![w] = IF wpc[w] = "skip" THEN "skip_locked"
                                 ELSE IF wpc[w] = "cb" THEN "cb_locked"
                                 ELSE IF wpc[w] = "append" THEN "append_locked"
                                 ELSE "report_locked"]
    /\ UNCHANGED <<ivars, rvars, gvars>>
    /\ UNCHANGED <<total_bytes, progress, cbVars, threads, scheme, popped, present>>
    /\ UNCHANGED <<ppc, reupload, pcontents, upload_urls, obj_queue, total,
                   uploaded, obj_hash, wreq, psent, perror, headSent, putSent, failed>>

\* lines 623-625: "Fragment already uploaded; skipping." and
\* progress.update(original_size)
SkipWrite(w) ==
    /\ wpc[w] = "skip_locked"
    /\ progress' = progress + getsize(obj_hash[w])
    /\ lock' = NoLock
    /\ wpc' = [wpc EXCEPT ![w] = "append"]
    /\ UNCHANGED <<ivars, rvars, gvars>>
    /\ UNCHANGED <<total_bytes, cbVars, threads, scheme, popped, present>>
    /\ UNCHANGED <<ppc, reupload, pcontents, upload_urls, obj_queue, total,
                   uploaded, obj_hash, wreq, psent, perror, headSent, putSent, failed>>

\* lines 627-628: uploaded.append(obj_hash)
AppendUploaded(w) ==
    /\ wpc[w] = "append_locked"
    /\ uploaded' = Append(uploaded, obj_hash[w])
    /\ lock' = NoLock
    /\ wpc' = [wpc EXCEPT ![w] = "loop"]
    /\ UNCHANGED <<ivars, rvars, gvars>>
    /\ UNCHANGED <<total_bytes, progress, cbVars, threads, scheme, popped, present>>
    /\ UNCHANGED <<ppc, reupload, pcontents, upload_urls, obj_queue, total,
                   obj_hash, wreq, psent, perror, headSent, putSent, failed>>

\* lines 629-639: the failure is written, the worker goes on
ReportFailure(w) ==
    /\ wpc[w] = "report_locked"
    /\ failed' = failed \cup {obj_hash[w]}
    /\ lock' = NoLock
    /\ wpc' = [wpc EXCEPT ![w] = "loop"]
    /\ UNCHANGED <<ivars, rvars, gvars>>
    /\ UNCHANGED <<total_bytes, progress, cbVars, threads, scheme, popped, present>>
    /\ UNCHANGED <<ppc, reupload, pcontents, upload_urls, obj_queue, total,
                   uploaded, obj_hash, wreq, psent, perror, headSent, putSent>>

\* lines 648-649: thread.join() returns for every thread
Joined == \A w \in threads : wpc[w] \in {"finished", "dead"}

AllUploadedAlways == TRUE

\* line 651: len(uploaded) != total
AllUploaded == Len(uploaded) = total

\* lines 648-652: "Failed to upload fragments"
PushFailsUpload ==
    /\ ppc = "uploading"
    /\ Joined
    /\ ~AllUploaded
    /\ ppc' = "failed"
    /\ perror' = "Failed to upload fragments"
    /\ UNCHANGED <<ivars, rvars, gvars>>
    /\ UNCHANGED <<total_bytes, progress, cbVars, threads, scheme, popped, present>>
    /\ UNCHANGED <<reupload, pcontents, upload_urls, obj_queue, total, uploaded,
                   lock, wpc, obj_hash, wreq, psent, headSent, putSent, failed>>

\* lines 648-655: the package PUT that is no dry run; _handle_response raises
\* when the registry refuses it
PushPackage ==
    /\ ppc = "uploading"
    /\ Joined
    /\ AllUploaded
    /\ psent' = Append(psent, "package")
    /\ \/ ppc' = "tagging" /\ UNCHANGED perror
       \/ ppc' = "failed" /\ perror' = "CommandException"
    /\ UNCHANGED <<ivars, rvars, gvars>>
    /\ UNCHANGED <<total_bytes, progress, cbVars, threads, scheme, popped, present>>
    /\ UNCHANGED <<reupload, pcontents, upload_urls, obj_queue, total, uploaded,
                   lock, wpc, obj_hash, wreq, headSent, putSent, failed>>

\* lines 657-671: the PUT of the 'latest' tag
PushTag ==
    /\ ppc = "tagging"
    /\ psent' = Append(psent, "tag")
    /\ \/ ppc' = "done" /\ UNCHANGED perror
       \/ ppc' = "failed" /\ perror' = "CommandException"
    /\ UNCHANGED <<ivars, rvars, gvars>>
    /\ UNCHANGED <<total_bytes, progress, cbVars, threads, scheme, popped, present>>
    /\ UNCHANGED <<reupload, pcontents, upload_urls, obj_queue, total, uploaded,
                   lock, wpc, obj_hash, wreq, headSent, putSent, failed>>

PushNext ==
    \/ PushDryRunFails
    \/ PushDryRun
    \/ \E w \in threads : AcquirePop(w)
    \/ \E w \in threads : PopBreak(w)
    \/ \E w \in threads : Pop(w)
    \/ \E w \in threads : LookupKeyError(w)
    \/ \E w \in threads : SendHead(w)
    \/ \E w \in threads : SendPutReupload(w)
    \/ \E w \in threads : HeadOk(w)
    \/ \E w \in threads : HeadNotOk(w)
    \/ \E w \in threads : RequestFails(w)
    \/ \E w \in threads : PeerStalls(w)
    \/ \E w \in threads : ReadBody(w)
    \/ \E w \in threads : ProgressUpdate(w)
    \/ \E w \in threads : PutOk(w)
    \/ \E w \in threads : AcquireLock(w)
    \/ \E w \in threads : SkipWrite(w)
    \/ \E w \in threads : AppendUploaded(w)
    \/ \E w \in threads : ReportFailure(w)
    \/ PushFailsUpload
    \/ PushPackage
    \/ PushTag

\* push when the object server answers uploads with 500, 502, 503 or 504
PushRetryNext ==
    \/ PushNext
    \/ \E w \in threads : ServerError(w)
    \/ \E w \in threads : HeadRetried(w)
    \/ \E w \in threads : PutRetried(w)
    \/ \E w \in threads : RetriesExhausted(w)
    \/ \E w \in threads : ErrorReturned(w)

----------------------------------------------------------------------------
(* install up to the package request, tag_add, version_add *)

\* the characters of a hash
HashChars == {0, 1}

FullHashes == [1..HashLen -> HashChars]

ShortHashes == UNION {[1..n -> HashChars] : n \in 1..(HashLen - 1)}

\* the logs the registry may hold: a hash is logged once per push
Logs == UNION {[1..n -> FullHashes] : n \in 0..MaxLog}

None == <<-1>>

LATEST_TAG == "latest"

\* the number of selectors given
NotNone(h, v, t) ==
    (IF h # None THEN 1 ELSE 0) + (IF v # "None" THEN 1 ELSE 0)
        + (IF t # "None" THEN 1 ELSE 0)

InitResolve(cmds) ==
    /\ rpc = "start"
    /\ cmd \in cmds
    /\ package \in IF cmd = "install" THEN {"empty", "name", "requirements"}
                  ELSE {"name"}
    /\ hash \in IF cmd = "none" THEN {None}
               ELSE IF cmd = "install" THEN ShortHashes \cup FullHashes \cup {None}
               ELSE ShortHashes \cup FullHashes
    /\ version \in IF cmd = "install" THEN {"None", "1.0"}
                  ELSE IF cmd = "version_add" THEN {"1.0"} ELSE {"None"}
    /\ tag \in IF cmd = "install" THEN {"None", "beta"}
              ELSE IF cmd = "tag_add" THEN {"beta"} ELSE {"None"}
    /\ force \in IF cmd = "version_add" THEN BOOLEAN ELSE {FALSE}
    /\ valid \in IF cmd = "version_add" THEN BOOLEAN ELSE {TRUE}
    /\ answer \in IF cmd = "version_add" THEN {"y", "Y", "n"} ELSE {"n"}
    /\ logs \in IF cmd = "none" THEN {<<>>} ELSE Logs
    /\ matched = None
    /\ rsent = <<>>
    /\ store = FALSE
    /\ rerror = "none"
    /\ given = NotNone(hash, version, tag)

\* an exception leaves the command
RaiseR(e) ==
    /\ rpc' = "failed"
    /\ rerror' = e

containsHash(s, prefix) ==
    \E k \in 0..(Len(s) - Len(prefix)) : prefix = SubSeq(s, k + 1, k + Len(prefix))

\* str.startswith
startswith(s, prefix) == Len(prefix) <= Len(s) /\ prefix = SubSeq(s, 1, Len(prefix))

\* lines 262-265: the entries of the log the hash matches
Matching(h, l) == {i \in 1..Len(l) : startswith(l[i], h)}

\* lines 250-270, for a log request that is answered: the hash itself when
\* it has the full length; else the first match of reversed(logs); None if
\* there is none
_match_hash(h, l) ==
    IF Len(h) = HashLen THEN h
    ELSE IF Matching(h, l) = {} THEN None
    ELSE l[CHOOSE i \in Matching(h, l) : \A j \in Matching(h, l) : j <= i]

\* lines 250-270: the call of _match_hash by a command that goes on at next
MatchHashCall(next) ==
    IF Len(hash) = HashLen
    THEN /\ matched' = hash
         /\ rpc' = next
         /\ UNCHANGED <<rsent, rerror>>
    ELSE /\ rsent' = Append(rsent, "GET log")
         /\ \/ IF _match_hash(hash, logs) = None
               THEN RaiseR("Invalid hash") /\ UNCHANGED matched
               ELSE /\ matched' = _match_hash(hash, logs)
                    /\ rpc' = next
                    /\ UNCHANGED rerror
            \/ RaiseR("RegistryError") /\ UNCHANGED matched

DefaultTagNone(h, v, t) == t

\* lines 810-811: if hash is version is tag is None: tag = LATEST_TAG
DefaultTag(h, v, t) ==
    IF h = None /\ v = "None" /\ t = "None" THEN LATEST_TAG ELSE t

\* line 822: [hash, version, tag].count(None)
CountNone(h, v, t) ==
    (IF h = None THEN 1 ELSE 0) + (IF v = "None" THEN 1 ELSE 0)
        + (IF t = "None" THEN 1 ELSE 0)

\* lines 810-817: "package name is empty."
InstallEmpty ==
    /\ cmd = "install"
    /\ rpc = "start"
    /\ package = "empty"
    /\ tag' = DefaultTag(hash, version, tag)
    /\ RaiseR("CommandException")
    /\ UNCHANGED <<ivars, pvars, gvars>>
    /\ UNCHANGED <<rargs, matched, rsent, store>>

\* lines 810-820: the package argument names a requirements file or holds
\* several lines: return install_via_requirements(package, force=force)
InstallRequirements ==
    /\ cmd = "install"
    /\ rpc = "start"
    /\ package = "requirements"
    /\ tag' = DefaultTag(hash, version, tag)
    /\ rpc' = "via_requirements"
    /\ UNCHANGED <<ivars, pvars, gvars>>
    /\ UNCHANGED <<rargs, matched, rsent, store, rerror>>

\* lines 810-822: assert [hash, version, tag].count(None) == 2 fails
InstallAssertFails ==
    /\ cmd = "install"
    /\ rpc = "start"
    /\ package = "name"
    /\ tag' = DefaultTag(hash, version, tag)
    /\ CountNone(hash, version, tag') # 2
    /\ RaiseR("AssertionError")
    /\ UNCHANGED <<ivars, pvars, gvars>>
    /\ UNCHANGED <<rargs, matched, rsent, store>>

\* lines 810-827: one selector; the session and the store are opened
InstallOpenStore ==
    /\ cmd = "install"
    /\ rpc = "start"
    /\ package = "name"
    /\ tag' = DefaultTag(hash, version, tag)
    /\ CountNone(hash, version, tag') = 2
    /\ store' = TRUE
    /\ rpc' = "resolve"
    /\ UNCHANGED <<ivars, pvars, gvars>>
    /\ UNCHANGED <<rargs, matched, rsent, rerror>>

\* the answer of the registry to the request of a version or a tag: the hash
\* it stands for, or an error that _handle_response raises
RegistryLookup(req) ==
    /\ rsent' = Append(rsent, req)
    /\ \/ \E i \in 1..Len(logs) :
            /\ matched' = logs[i]
            /\ rpc' = "fetch"
            /\ UNCHANGED rerror
       \/ RaiseR("RegistryError") /\ UNCHANGED matched

\* lines 829-838
ResolveVersion ==
    /\ rpc = "resolve"
    /\ version # "None"
    /\ RegistryLookup("GET version")
    /\ UNCHANGED <<ivars, pvars, gvars>>
    /\ UNCHANGED <<rargs, tag, store>>

\* lines 839-848
ResolveTag ==
    /\ rpc = "resolve"
    /\ version = "None"
    /\ tag # "None"
    /\ RegistryLookup(IF tag = LATEST_TAG THEN "GET tag latest" ELSE "GET tag")
    /\ UNCHANGED <<ivars, pvars, gvars>>
    /\ UNCHANGED <<rargs, tag, store>>

\* lines 849-851
ResolveHash ==
    /\ rpc = "resolve"
    /\ version = "None"
    /\ tag = "None"
    /\ MatchHashCall("fetch")
    /\ UNCHANGED <<ivars, pvars, gvars>>
    /\ UNCHANGED <<rargs, tag, store>>

\* lines 853-864: the request for the package
FetchPackage ==
    /\ rpc = "fetch"
    /\ rsent' = Append(rsent, "GET package")
    /\ \/ rpc' = "fetched" /\ UNCHANGED rerror
       \/ RaiseR("RegistryError")
    /\ UNCHANGED <<ivars, pvars, gvars>>
    /\ UNCHANGED <<rargs, tag, matched, store>>

\* lines 753-765: the hash is resolved when the body of the PUT is built
TagAddMatch ==
    /\ cmd = "tag_add"
    /\ rpc = "start"
    /\ MatchHashCall("put")
    /\ UNCHANGED <<ivars, pvars, gvars>>
    /\ UNCHANGED <<rargs, tag, store>>

\* lines 756-766
TagAddPut ==
    /\ cmd = "tag_add"
    /\ rpc = "put"
    /\ rsent' = Append(rsent, "PUT tag")
    /\ \/ rpc' = "done" /\ UNCHANGED rerror
       \/ RaiseR("RegistryError")
    /\ UNCHANGED <<ivars, pvars, gvars>>
    /\ UNCHANGED <<rargs, tag, matched, store>>

\* str.lower, on the answers to a prompt
lower(a) == IF a = "Y" THEN "y" ELSE a

ConfirmedAlways(f, a) == TRUE

\* lines 709-712: the PUT is built when force is set or the user answers 'y'
Confirmed(f, a) == f \/ lower(a) = "y"

\* lines 701-707: Version(version) raises: "Invalid version format"
VersionAddInvalid ==
    /\ cmd = "version_add"
    /\ rpc = "start"
    /\ ~valid
    /\ RaiseR("CommandException")
    /\ UNCHANGED <<ivars, pvars, gvars>>
    /\ UNCHANGED <<rargs, tag, matched, rsent, store>>

\* lines 701-712: the user does not answer 'y'
VersionAddDeclined ==
    /\ cmd = "version_add"
    /\ rpc = "start"
    /\ valid
    /\ ~Confirmed(force, answer)
    /\ rpc' = "returned"
    /\ UNCHANGED <<ivars, pvars, gvars>>
    /\ UNCHANGED <<rargs, tag, matched, rsent, store, rerror>>

\* lines 701-724: the hash is resolved when the body of the PUT is built
VersionAddMatch ==
    /\ cmd = "version_add"
    /\ rpc = "start"
    /\ valid
    /\ Confirmed(force, answer)
    /\ MatchHashCall("put")
    /\ UNCHANGED <<ivars, pvars, gvars>>
    /\ UNCHANGED <<rargs, tag, store>>

\* lines 714-724
VersionAddPut ==
    /\ cmd = "version_add"
    /\ rpc = "put"
    /\ rsent' = Append(rsent, "PUT version")
    /\ \/ rpc' = "done" /\ UNCHANGED rerror
       \/ RaiseR("RegistryError")
    /\ UNCHANGED <<ivars, pvars, gvars>>
    /\ UNCHANGED <<rargs, tag, matched, store>>

ResolveNext ==
    \/ InstallEmpty
    \/ InstallRequirements
    \/ InstallAssertFails
    \/ InstallOpenStore
    \/ ResolveVersion
    \/ ResolveTag
    \/ ResolveHash
    \/ FetchPackage
    \/ TagAddMatch
    \/ TagAddPut
    \/ VersionAddInvalid
    \/ VersionAddDeclined
    \/ VersionAddMatch
    \/ VersionAddPut

----------------------------------------------------------------------------
(* the history log of a package on the registry, and the log command *)

\* the user who pushes the package
Author == "test_user"

\* the package trees a user may push
PackageContents == SUBSET Digests

NoResponse == [status |-> "none", logs |-> <<>>]

InitRegistry ==
    /\ reglog = <<>>
    /\ pushed = <<>>
    /\ response = NoResponse
    /\ printed = <<>>

LogPrepend(l, entry) == <<entry>> \o l

\* the history log is an append-only list: a push adds its entry at the end
LogAppend(l, entry) == Append(l, entry)

\* one push of a package instance by the author: the registry adds
\* (hash, author) to the history log of the package
PutPackage ==
    /\ Len(pushed) < MaxLog
    /\ \E c \in PackageContents :
         /\ pushed' = Append(pushed, c)
         /\ reglog' = LogAppend(reglog, [hash |-> hash_contents(c), author |-> Author])
    /\ UNCHANGED <<ivars, pvars, rvars>>
    /\ UNCHANGED <<response, printed>>

\* what the log endpoint answers to the author: the entries of the log
LogEndpoint == [status |-> "ok", logs |-> reglog]

\* GET /api/log/{owner}/{pkg}/ by the author
GetLog ==
    /\ response' = LogEndpoint
    /\ UNCHANGED <<ivars, pvars, rvars>>
    /\ UNCHANGED <<reglog, pushed, printed>>

\* reversed()
Reversed(q) == [i \in 1..Len(q) |-> q[Len(q) + 1 - i]]

\* lines 500-521: the log command requests the log and prints a line for
\* each entry of reversed(response.json()['logs'])
LogCommand ==
    /\ response' = LogEndpoint
    /\ printed' = Reversed(response'.logs)
    /\ UNCHANGED <<ivars, pvars, rvars>>
    /\ UNCHANGED <<reglog, pushed>>

RegistryNext ==
    \/ PutPackage
    \/ GetLog
    \/ LogCommand

----------------------------------------------------------------------------
(* Specifications *)

vars == <<ivars, pvars, rvars, gvars>>

\* the object server holds every object compressed, but for at most one digest,
\* for which it holds another of its possible artifacts
ServedAny ==
    {f \in [Digests -> Artifacts] :
        /\ \A c \in Contents : f[digest_file(c)] \in ArtifactsOf(c)
        /\ Cardinality({c \in Contents : f[digest_file(c)] # Gzip(c)}) <= 1}

\* the object server holds every object, compressed
ServedRight == {[d \in Digests |-> Gzip(d[2])]}

\* a local store without object files
EmptyStore == {[d \in Digests |-> NoObject]}

\* a local store in which at most one object path holds a file, whose digest
\* is not the one the path is named after
StaleStores ==
    EmptyStore \cup
        {[d \in Digests |-> IF d = e THEN OtherContent(e[2]) ELSE NoObject] :
            e \in Digests}

DeclinesNever(a) == FALSE

\* line 869: overwrite.lower() != 'y'
Declines(a) == lower(a) # "y"

\* lines 868-870: the answer is not 'y'; install returns
OverwriteDeclined ==
    /\ ipc = "prompt"
    /\ \E a \in {"y", "Y", "n"} :
         /\ Declines(a)
         /\ overwrite' = a
    /\ ipc' = "returned"
    /\ UNCHANGED <<pvars, rvars, gvars>>
    /\ UNCHANGED <<install_force, status_code>>
    /\ UNCHANGED <<runs, respVars, served, fileVars, pkgobj, saved, loopVars,
                   getVars, error, histVars, content_range>>

\* lines 868-872: the answer is 'y'; install goes on as without the prompt
OverwriteAccepted ==
    /\ ipc = "prompt"
    /\ \E a \in {"y", "Y", "n"} :
         /\ ~Declines(a)
         /\ overwrite' = a
    /\ ipc' = "verify"
    /\ UNCHANGED <<pvars, rvars, gvars>>
    /\ UNCHANGED <<install_force, status_code>>
    /\ UNCHANGED <<runs, respVars, served, fileVars, pkgobj, saved, loopVars,
                   getVars, error, histVars, content_range>>

InstallPromptNext ==
    \/ InstallNext
    \/ OverwriteDeclined
    \/ OverwriteAccepted

InitForInstall ==
    InitInstall(ServedAny, EmptyStore, {TRUE}) /\ InitPush({FALSE}, {Digests}, {Workers}, {"https"})
        /\ InitResolve({"none"}) /\ InitRegistry

InitForPush ==
    InitInstall(ServedRight, EmptyStore, {TRUE}) /\ InitPush(BOOLEAN, Trees, Pools, {"https"})
        /\ InitResolve({"none"}) /\ InitRegistry

InitForResolve ==
    InitInstall(ServedRight, EmptyStore, {TRUE}) /\ InitPush({FALSE}, {Digests}, {Workers}, {"https"})
        /\ InitResolve({"install", "tag_add", "version_add"}) /\ InitRegistry

\* install runs against the registry and the object server with force set, so
\* that a second install of the package starts without the overwrite prompt;
\* no push runs
SpecInstall == InitForInstall /\ [][InstallNext]_vars

\* one push with its pool of worker threads; no install runs
SpecPush == InitForPush /\ [][PushNext]_vars

\* one call of install, tag_add or version_add, up to the request that
\* follows the resolution of the package hash
SpecResolve == InitForResolve /\ [][ResolveNext]_vars

\* install into a local store that may hold an object file with a wrong digest
InitForInstallStale ==
    InitInstall(ServedAny, StaleStores, {TRUE}) /\ InitPush({FALSE}, {Digests}, {Workers}, {"https"})
        /\ InitResolve({"none"}) /\ InitRegistry

SpecInstallStale == InitForInstallStale /\ [][InstallNext]_vars

\* install with or without force; without it install asks before it
\* overwrites a package that is already installed
InitForInstallPrompt ==
    InitInstall(ServedAny, EmptyStore, BOOLEAN) /\ InitPush({FALSE}, {Digests}, {Workers}, {"https"})
        /\ InitResolve({"none"}) /\ InitRegistry

SpecInstallPrompt == InitForInstallPrompt /\ [][InstallPromptNext]_vars

InitForRegistry ==
    InitInstall(ServedRight, EmptyStore, {TRUE}) /\ InitPush({FALSE}, {Digests}, {Workers}, {"https"})
        /\ InitResolve({"none"}) /\ InitRegistry

\* pushes of package instances by one user to one package, and reads of
\* the package's log
SpecRegistry == InitForRegistry /\ [][RegistryNext]_vars

\* a push to upload URLs of either scheme
InitForPushRetry ==
    InitInstall(ServedRight, EmptyStore, {TRUE}) /\ InitPush(BOOLEAN, Trees, Pools, {"https", "http"})
        /\ InitResolve({"none"}) /\ InitRegistry

\* one push against an object server that answers some uploads with a status
\* of the retry policy's status_forcelist
SpecPushRetry == InitForPushRetry /\ [][PushRetryNext]_vars

----------------------------------------------------------------------------
(* Properties *)

Elems(q) == {q[i] : i \in 1..Len(q)}

Required == find_object_hashes(pcontents)

\* C1: the dry-run PUT precedes every object upload request; the package PUT
\* that is no dry run is sent only once every required digest is in the
\* uploaded list; the tag PUT is sent only after that package PUT.
C1_PushTwoPhase ==
    /\ (headSent \cup putSent # {}) => (psent # <<>> /\ psent[1] = "dry_run")
    /\ "package" \in Elems(psent) => Required \subseteq Elems(uploaded)
    /\ \A i \in 1..Len(psent) :
         psent[i] = "tag" => \E j \in 1..(i - 1) : psent[j] = "package"
    /\ \A i \in 1..Len(psent) :
         psent[i] = "package" => \E j \in 1..(i - 1) : psent[j] = "dry_run"

\* a push that uploaded one object, found another present and published
C1_Witness ==
    /\ ppc = "done"
    /\ psent = <<"dry_run", "package", "tag">>
    /\ putSent # {}
    /\ headSent \ putSent # {}

\* C2: whenever install has saved the received tree as the installed contents,
\* every digest the tree references has a file at its object path whose
\* digest is that digest.
C2_SavedTreeComplete ==
    savedRun =>
        \A d \in find_object_hashes(saved) :
            objects[d] # NoObject /\ digest_file(objects[d]) = d

\* C3: every file install has moved to an object path has the digest the
\* path is named after.
C3_CommittedObjectsVerified ==
    \A d \in Digests : objects[d] # NoObject => digest_file(objects[d]) = d

\* one object was committed and the next one rejected for its digest
C3_Witness ==
    /\ ipc = "failed"
    /\ error = "FragmentHashMismatch"
    /\ \E d \in Digests : objects[d] # NoObject /\ served[d] = Gzip(objects[d])
    /\ served[cur] # Gzip(cur[2])

\* C4: if all workers have ended and a required digest is not in the uploaded
\* list, push raises 'Failed to upload fragments' and has sent neither the
\* package PUT that is no dry run nor the tag PUT.
C4_FailedUploadPublishesNothing ==
    (Joined /\ ppc # "idle" /\ ~(Required \subseteq Elems(uploaded))) =>
        /\ psent = <<"dry_run">>
        /\ ppc \in {"uploading", "failed"}
        /\ ppc = "uploading" => (ENABLED PushFailsUpload /\ ~ENABLED PushPackage)
        /\ ppc = "failed" => perror = "Failed to upload fragments"

\* a worker reported a failed upload and push raised
C4_Witness ==
    /\ ppc = "failed"
    /\ perror = "Failed to upload fragments"
    /\ putSent # {}
    /\ \A w \in Workers : wpc[w] = "finished"

\* C5: when the hash recomputed from the received tree differs from the
\* resolved hash, install raises before install_package, before any download
\* request, and without saving contents.
C5_MismatchedHashAborts ==
    (ipc # "idle" /\ pkghash # hash_contents(contents)) =>
        /\ ipc \in {"verify", "failed"}
        /\ ipc = "failed" => error = "MismatchedHash"
        /\ pkgobj = NoTree
        /\ dlReqs = {}
        /\ cur = NoDigest
        /\ ~savedRun

\* the second install fails on the hash of the tree, after a first that saved
C5_Witness ==
    /\ ipc = "failed"
    /\ error = "MismatchedHash"
    /\ saved # NoTree

AppendOnly ==
    \A d \in Digests :
        (stagingGz[d] # Absent /\ stagingGz'[d] # Absent) =>
            IsPrefix(stagingGz[d], stagingGz'[d])

StagedExactly ==
    /\ ipc \in {"get_wait", "stalled"} =>
          (request.method = "GET" /\ request.range = Len(stagingGz[cur]))
    /\ \A d \in Digests : stagingGz[d] # Absent => IsPrefix(stagingGz[d], served[d])
    /\ ipc = "gunzip" => stagingGz[cur] = served[cur]

\* C6: every attempt requests the range that starts at the current length of
\* the staging file, the file is only appended to, it holds a prefix of the
\* artifact at all times and, when the attempt loop is left by break, the
\* artifact's bytes exactly once.
C6_ResumedDownloadExact == [][AppendOnly /\ StagedExactly']_vars

\* a download resumed in the middle of the artifact, after an interrupted
\* attempt, and went to its end
C6_Witness ==
    /\ ipc = "gunzip"
    /\ tries >= 2
    /\ starting_length > 0
    /\ starting_length < ArtifactLen
    /\ stagingGz[cur] = served[cur]

\* C7: an ok response without a well-formed Content-Range, or with a start
\* other than the offset requested, makes install raise 'Unexpected
\* Content-Range'; no byte is appended and no further request is sent.
C7_ContentRangeMismatchFatal ==
    [][(/\ ipc = "get_wait"
        /\ content_range'.form # "none"
        /\ (content_range'.form # "range" \/ content_range'.start # request.range))
       => (/\ ipc' = "failed"
           /\ error' = "UnexpectedContentRange"
           /\ stagingGz' = stagingGz
           /\ tries' = tries)]_vars

\* a resumed request was answered with a range that starts elsewhere
C7_Witness ==
    /\ ipc = "failed"
    /\ error = "UnexpectedContentRange"
    /\ content_range.form = "range"
    /\ starting_length > 0
    /\ content_range.start # starting_length
    /\ Len(stagingGz[cur]) = starting_length

\* C8: an object gets at most S3_TIMEOUT_RETRIES attempts; a connection error
\* ends install only on the last of them, and then nothing is saved.
C8_ConnectionErrorRetried ==
    /\ tries <= S3_TIMEOUT_RETRIES
    /\ (ipc = "failed" /\ error = "ConnectionError") =>
          (tries = S3_TIMEOUT_RETRIES /\ ~savedRun)
    /\ ipc \in {"attempt", "get_wait", "stalled", "stream"} => attempt < S3_TIMEOUT_RETRIES

\* the third attempt of an object failed with a connection error
C8_Witness ==
    /\ ipc = "failed"
    /\ error = "ConnectionError"
    /\ tries = S3_TIMEOUT_RETRIES
    /\ attempt = S3_TIMEOUT_RETRIES - 1

\* C9: a download attempt that times out, on connect or on read, ends install
\* only when it was the last attempt of the budget.
C9_TimeoutRetried ==
    (ipc = "failed" /\ error \in {"ConnectTimeout", "ReadTimeout"}) =>
        tries = S3_TIMEOUT_RETRIES

PushEnded == ppc \in {"done", "failed"}

\* C10: no transfer request waits on a stalled peer without a timeout, and
\* push has ended or can take a step.
C10_TransferCallsBounded ==
    /\ \A w \in Workers : wpc[w] = "stalled" => wreq[w].timeout # NoTimeout
    /\ ipc = "stalled" => request.timeout # NoTimeout
    /\ PushEnded \/ ENABLED PushNext
\* the digests whose HEAD answered ok and whose skip has been written
Skipped ==
    {d \in present :
        ~\E w \in threads : obj_hash[w] = d /\ wpc[w] \in {"skip", "skip_locked"}}

\* C11: without reupload, a digest whose HEAD answered ok gets no PUT and is
\* recorded as uploaded, and progress advances by the size of its object
\* file; when every required digest is present and the workers have ended,
\* no PUT was sent, every digest is recorded and progress equals total_bytes.
C11_PresentObjectsSkipped ==
    ~reupload =>
        /\ present \cap putSent = {}
        /\ \A d \in present :
              \/ d \in Elems(uploaded)
              \/ \E w \in threads :
                    /\ obj_hash[w] = d
                    /\ wpc[w] \in {"skip", "skip_locked", "append", "append_locked"}
        /\ putSent = {} => progress = SumSizes(Skipped)
        /\ (Joined /\ ppc # "idle" /\ present = Required) =>
              /\ putSent = {}
              /\ Elems(uploaded) = Required
              /\ progress = total_bytes

\* every object of a package of several was found present; push published
C11_Witness ==
    /\ ppc = "done"
    /\ ~reupload
    /\ Cardinality(Required) > 1
    /\ present = Required
    /\ putSent = {}
    /\ progress = total_bytes
InTransfer(w) == wpc[w] \in {"head_wait", "put_wait", "cb", "cb_locked"}

\* a request error leaves the transfer for the failure report, and moves no
\* other worker
FailureHandled ==
    \A w \in threads :
        (InTransfer(w) /\ ~InTransfer(w)' /\ wpc'[w] \notin {"skip", "append", "stalled"}) =>
            /\ wpc'[w] = "report"
            /\ uploaded' = uploaded
            /\ obj_queue' = obj_queue
            /\ \A v \in threads \ {w} : wpc'[v] = wpc[v]

\* a failed digest is reported and never in the uploaded list; the worker that
\* reported goes back to the head of its loop, where it pops the next digest
Reported ==
    /\ failed \cap Elems(uploaded) = {}
    /\ \A w \in threads :
          /\ wpc[w] \in {"report", "report_locked"} => obj_hash[w] \notin Elems(uploaded)
          /\ wpc[w] = "report_locked" => ENABLED ReportFailure(w)
          /\ (wpc[w] = "loop" /\ LockFree) => ENABLED AcquirePop(w)

\* C12: when a transfer fails with a request error, the failure is reported,
\* the digest is not added to the uploaded list, the worker goes on to pop the
\* next digest and no other worker is stopped.
C12_FailedTransferContinues ==
    [][FailureHandled /\ Reported' /\ \A w \in threads :
         wpc[w] = "report_locked" /\ wpc'[w] # "report_locked" => wpc'[w] = "loop"]_vars

\* the only worker of the pool reported the failure of its first digest and
\* then uploaded the next
C12_Witness ==
    /\ Cardinality(threads) = 1
    /\ Len(popped) = 2
    /\ popped[1] \in failed
    /\ popped[2] \in Elems(uploaded)
    /\ popped[2] \in putSent
\* C13: when the worker threads have all ended, the work queue is empty and
\* every required digest has been popped.
C13_AllWorkAttempted ==
    (ppc # "idle" /\ Joined) =>
        /\ obj_queue = <<>>
        /\ Elems(popped) = Required
NoDuplicates(q) == \A i, j \in 1..Len(q) : q[i] = q[j] => i = j

\* the positions of a worker inside a 'with lock' block
InCriticalSection(w) ==
    wpc[w] \in {"pop", "cb_locked", "skip_locked", "append_locked", "report_locked"}

\* every digest is either in the queue or was popped, once
PoppedOnce ==
    ppc = "uploading" =>
        /\ NoDuplicates(popped \o obj_queue)
        /\ Elems(popped \o obj_queue) = Required
        /\ \A d \in Elems(popped) : \E w \in threads : obj_hash[w] = d \/ d \in failed
                                                       \/ d \in Elems(uploaded)

UploadedOnce == NoDuplicates(uploaded) /\ Elems(uploaded) \subseteq Required

MutualExclusion == \A w \in threads : InCriticalSection(w) => lock = w

\* the queue, the uploaded list and the progress counter change only in a
\* step of the worker that holds the lock
MutationLocked ==
    (ppc = "uploading" /\ <<obj_queue, uploaded, progress>>' # <<obj_queue, uploaded, progress>>) =>
        \E w \in threads :
            /\ lock = w
            /\ InCriticalSection(w)
            /\ wpc'[w] # wpc[w]
            /\ \A v \in threads \ {w} : wpc'[v] = wpc[v]

\* C14: under every interleaving of the workers each required digest is
\* popped once, the uploaded list holds no digest twice and only required
\* digests, and the queue, the list and the progress counter are changed only
\* by the worker holding the lock.
C14_SharedStateSerialized ==
    [][MutationLocked /\ PoppedOnce' /\ UploadedOnce' /\ MutualExclusion']_vars

\* two workers hold different digests; one appends to the uploaded list under
\* the lock while the other waits for the lock to report its progress
C14_Witness ==
    /\ \E w, v \in threads :
         /\ wpc[w] = "append_locked"
         /\ wpc[v] = "cb"
         /\ obj_hash[w] # obj_hash[v]
         /\ lock = w
    /\ Len(popped) = 2
\* the worker is inside the upload of obj_hash[w]
Uploading(w) == wpc[w] \in {"put_wait", "cb", "cb_locked", "stalled"} /\ wreq[w] = PutRequest

\* C15: the progress reported for one uploaded object never decreases, never
\* exceeds the object's original size and equals it once the compressed file
\* has been read; the aggregate progress never exceeds total_bytes and equals
\* it after a push in which every object succeeded.
C15_ProgressScaled ==
    /\ \A w \in threads : Uploading(w) =>
          /\ original_last_update[w] <= OriginalRead(compressed_read[w],
                   getsize(obj_hash[w]), compressed_size(obj_hash[w]))
          /\ original_last_update[w] <= getsize(obj_hash[w])
          /\ (wpc[w] = "put_wait" /\ fd_pos[w] = compressed_size(obj_hash[w])) =>
                original_last_update[w] = getsize(obj_hash[w])
    /\ progress <= total_bytes
    /\ ppc = "done" => progress = total_bytes
\* the command resolves its hash argument with _match_hash
HashSelected == hash # None /\ (cmd = "install" => (given = 1 /\ package = "name"))

\* the distinct hashes of the log that the hash argument is a prefix of
PrefixOf == {logs[i] : i \in {j \in 1..Len(logs) : IsPrefix(hash, logs[j])}}

Published == {"GET package", "PUT tag", "PUT version"}

\* C16: a short hash that is a prefix of two or more distinct hashes of the
\* log is never resolved to a hash: no package is fetched and no tag or
\* version is put for it.
C16_AmbiguousShortHashRejected ==
    (HashSelected /\ Len(hash) < HashLen /\ Cardinality(PrefixOf) >= 2) =>
        /\ matched = None
        /\ Elems(rsent) \cap Published = {}

\* C17: a short hash that is a prefix of no hash of the log is not resolved:
\* once the log was requested the command has failed, and it sends no package
\* request and no tag or version PUT; a short hash that is a prefix of exactly
\* one hash of the log resolves to that hash only.
C17_UnknownShortHashRaises ==
    (HashSelected /\ Len(hash) < HashLen) =>
        /\ PrefixOf = {} =>
              /\ matched = None
              /\ Elems(rsent) \cap Published = {}
              /\ rsent # <<>> =>
                    /\ rsent = <<"GET log">>
                    /\ rpc = "failed"
                    /\ rerror \in {"Invalid hash", "RegistryError"}
        /\ Cardinality(PrefixOf) = 1 => matched \in {None} \cup PrefixOf
        /\ (Cardinality(PrefixOf) = 1 /\ rpc \in {"fetch", "put"}) => matched \in PrefixOf

\* install was given a short hash that no hash of a log of several matches
C17_Witness ==
    /\ cmd = "install"
    /\ Len(logs) > 1
    /\ Len(hash) < HashLen
    /\ PrefixOf = {}
    /\ rerror = "Invalid hash"
    /\ store

\* C18 as stated: with no selector the tag 'latest' is requested; with more
\* than one, install fails before any registry request and before the local
\* store is opened.
C18_ExactlyOneSelector ==
    cmd = "install" =>
        /\ (given = 0 /\ rpc # "start") =>
              /\ tag = LATEST_TAG
              /\ rsent # <<>> => rsent[1] = "GET tag latest"
        /\ given > 1 =>
              /\ rpc \in {"start", "failed"}
              /\ rsent = <<>>
              /\ ~store

\* C18, amended: the same for a package argument that is no requirements
\* reference ('@file' or several lines), which install hands over to
\* install_via_requirements before it looks at the selectors.
C18_ExactlyOneSelectorOfOnePackage ==
    (cmd = "install" /\ package # "requirements") =>
        /\ (given = 0 /\ rpc # "start") =>
              /\ tag = LATEST_TAG
              /\ rsent # <<>> => rsent[1] = "GET tag latest"
        /\ given > 1 =>
              /\ rpc \in {"start", "failed"}
              /\ rsent = <<>>
              /\ ~store

\* install of one package with a hash and a version failed on the assertion
C18_Witness ==
    /\ cmd = "install"
    /\ package = "name"
    /\ hash # None
    /\ version # "None"
    /\ rpc = "failed"
    /\ rerror = "AssertionError"
\* the object path of d holds a file with digest d
Verified(d) == objects[d] # NoObject /\ digest_file(objects[d]) = d

\* C19: once the object path of a digest holds a file with that digest, no
\* download request is sent for the digest, nothing is staged for it and the
\* file is left as it is.
C19_InstalledObjectsSkipped ==
    [][\A d \in Digests : Verified(d) =>
          /\ objects'[d] = objects[d]
          /\ d \in dlReqs' => d \in dlReqs
          /\ stagingGz'[d] = stagingGz[d]
          /\ tempObj'[d] = tempObj[d]]_vars

\* a second install of a package of several objects found every object
\* installed and sent no download request
C19_Witness ==
    /\ runs = 2
    /\ ipc = "done"
    /\ Cardinality(urls) > 1
    /\ \A d \in urls : Verified(d)
    /\ dlReqs = {}
    /\ cur # NoDigest

\* install fails in this step
Aborts == ipc # "failed" /\ ipc' = "failed"

\* the loop of install, at an object that is committed, skips it
SkipsCommitted ==
    (ipc = "loop" /\ todo # {} /\ Verified(NextHash)) =>
        (ENABLED SkipObject /\ ~ENABLED OpenStaging)

\* C20: a step in which install aborts changes no file at an object path;
\* every committed object stays in place with its content in all later
\* steps, and a later install skips it.
C20_AbortKeepsCommittedObjects ==
    [][/\ Aborts => objects' = objects
       /\ \A d \in Digests : Verified(d) => objects'[d] = objects[d]
       /\ SkipsCommitted']_vars

\* the second install skipped an object the first had committed and then
\* failed on the next object
C20_Witness ==
    /\ runs = 2
    /\ ipc = "failed"
    /\ error \in {"ConnectionError", "DownloadFailed", "UnexpectedContentRange",
                  "GzipError", "FragmentHashMismatch"}
    /\ \E d \in urls :
         /\ Verified(d)
         /\ d # cur
         /\ DigestLess(d, cur)
         /\ d \notin dlReqs
    /\ objects[cur] = NoObject

\* C21: when install has rejected the object of download_hash for its digest,
\* no file is at the object path of download_hash.
C21_RejectedObjectLeavesNoFile ==
    (ipc = "failed" /\ error = "FragmentHashMismatch") => objects[cur] = NoObject

\* C22: when install has failed on the decompression of the staged artifact
\* or on the digest of the decompressed file, neither the compressed staging
\* file nor the decompressed temporary file of the object exists.
C22_FailedObjectStagingDeleted ==
    (ipc = "failed" /\ error \in {"GzipError", "FragmentHashMismatch"}) =>
        /\ stagingGz[cur] = Absent
        /\ tempObj[cur] = NoObject

\* C23: version_add sends nothing for a version string that is not a valid
\* version and raises CommandException; it sends the log request and the
\* version PUT only for a valid version string and, unless force is set,
\* only when the user answered 'y' to the confirmation.
C23_VersionValidatedBeforeSend ==
    cmd = "version_add" =>
        /\ ~valid =>
              /\ rsent = <<>>
              /\ rpc \in {"start", "failed"}
              /\ rpc = "failed" => rerror = "CommandException"
        /\ rsent # <<>> => (valid /\ (force \/ answer \in {"y", "Y"}))
        /\ (valid /\ ~force /\ answer \notin {"y", "Y"}) => rpc \in {"start", "returned"}

\* version_add was forced with a short hash of the log and a version string
\* that is not valid, and raised
C23_Witness ==
    /\ cmd = "version_add"
    /\ ~valid
    /\ force
    /\ Len(hash) < HashLen
    /\ PrefixOf # {}
    /\ rpc = "failed"
    /\ rerror = "CommandException"

\* the entries a reader expects after the pushes made so far
ExpectedLogs == [i \in 1..Len(pushed) |->
                   [hash |-> hash_contents(pushed[i]), author |-> Author]]

C26_ReuploadSendsEveryObject ==
    reupload =>
        /\ headSent = {}
        /\ present = {}
        /\ (ppc # "idle" /\ Joined) => putSent = Required

\* the staged artifact of download_hash is being decompressed and verified
Verifying == ipc = "gunzip" /\ ENABLED (GunzipFails \/ CheckMismatch \/ CheckOkMove)

\* C27: a download request answered with 416 appends no byte to the staging
\* file, raises nothing and ends the attempt loop without a further request;
\* the staged artifact goes on to decompression and digest verification.
C27_RangeNotSatisfiableIsComplete ==
    [][(ipc = "get_wait" /\ status_code' = RANGE_NOT_SATISFIABLE) =>
          /\ stagingGz' = stagingGz
          /\ ipc' # "failed"
          /\ error' = "none"
          /\ tries' = tries
          /\ attempt' = attempt
          /\ Verifying']_vars

\* a request for the range after the last byte of the staged artifact was
\* answered with 416, and the object was verified and committed
C27_Witness ==
    /\ status_code = RANGE_NOT_SATISFIABLE
    /\ ipc = "loop"
    /\ tries >= 2
    /\ starting_length = ArtifactLen
    /\ Verified(cur)
    /\ stagingGz[cur] = Absent

\* C28: a download request answered with a 5xx status before the last attempt
\* of the object is followed by a further attempt, and does not end install.
C28_ServerErrorRetried ==
    [][(ipc = "get_wait" /\ status_code' >= 500 /\ CanRetry(attempt)) =>
          /\ ipc' = "attempt"
          /\ error' = "none"]_vars

\* the number of times the request in flight of worker w was sent
Attempts(w) == MaxRetries(scheme) - retries[w] + 1

\* C29: a HEAD or PUT of a worker that is answered with 500, 502, 503 or 504
\* is sent again unless it was sent RetryTotal + 1 times; after that the
\* worker goes on to report the failure of the digest, which is not added to
\* the uploaded list.
C29_UploadRequestsRetried ==
    [][\A w \in threads :
          (wpc[w] = "status_5xx" /\ wpc'[w] # "status_5xx") =>
              IF Attempts(w) <= RetryTotal
              THEN /\ wpc'[w] \in {"head_wait", "put_wait"}
                   /\ wreq'[w] = wreq[w]
                   /\ retries'[w] = retries[w] - 1
              ELSE /\ wpc'[w] = "report"
                   /\ uploaded' = uploaded]_vars

\* the errors that end a download before the staged artifact is decompressed
DownloadErrors ==
    {"ConnectionError", "ConnectTimeout", "ReadTimeout", "DownloadFailed",
     "UnexpectedContentRange"}

\* install fails in this step, in the download of download_hash
DownloadAborts == ipc # "failed" /\ ipc' = "failed" /\ error' \in DownloadErrors

\* C30: a step that aborts the download of an object writes no file at an
\* object path and keeps the compressed staging file with the bytes received
\* so far; the file stays as it is until the object is downloaded again, and
\* every request for the object asks for the range that starts at its length.
C30_AbortedDownloadResumes ==
    [][/\ DownloadAborts =>
             /\ objects' = objects
             /\ tempObj' = tempObj
             /\ stagingGz' = stagingGz
             /\ stagingGz[cur] # Absent
             /\ IsPrefix(stagingGz[cur], served[cur])
       /\ \A d \in Digests :
             (stagingGz[d] # Absent /\ stagingGz'[d] # stagingGz[d]) =>
                 (d = cur /\ ipc \in {"stream", "gunzip"})
       /\ (ipc = "attempt" /\ ipc' = "get_wait") =>
             /\ request'.method = "GET"
             /\ request'.range = Len(stagingGz[cur])]_vars

\* the first request of the second install for an object asks for the rest
\* of the artifact, after the part an aborted download left in the staging file
C30_Witness ==
    /\ runs = 2
    /\ ipc = "get_wait"
    /\ tries = 1
    /\ attempt = 0
    /\ request.range > 0
    /\ request.range < ArtifactLen
    /\ request.range = Len(stagingGz[cur])
    /\ objects[cur] = NoObject

\* the object path of d holds a file whose digest is not d
Stale(d) == objects[d] # NoObject /\ digest_file(objects[d]) # d

\* C31: an object file whose digest is not the expected one is not skipped:
\* the loop goes on to download the object; the file is left as it is until
\* the downloaded artifact has been decompressed and found to have the
\* expected digest, and is then replaced by it.
C31_StaleObjectReplaced ==
    [][/\ (ipc = "loop" /\ todo # {} /\ Stale(NextHash)) =>
             /\ ENABLED OpenStaging
             /\ ~ENABLED SkipObject
             /\ ipc' # "loop" => (ipc' = "attempt" /\ cur' = NextHash)
       /\ \A d \in Digests :
             (Stale(d) /\ objects'[d] # objects[d]) =>
                 /\ d = cur
                 /\ ipc = "gunzip"
                 /\ d \in dlReqs
                 /\ stagingGz[d] = served[d]
                 /\ objects'[d] = Gunzip(stagingGz[d])
                 /\ Verified(d)'
                 /\ d \in replaced'
       /\ (ipc = "gunzip" /\ Stale(cur) /\ ipc' = "loop") => Verified(cur)']_vars

\* install found a file with a wrong digest at the path of an object,
\* downloaded the object and replaced the file, then saved the contents
C31_Witness ==
    /\ ipc = "done"
    /\ savedRun
    /\ cur \in replaced
    /\ cur \in dlReqs
    /\ Verified(cur)
    /\ served[cur] = Gzip(cur[2])

\* the parts of the local store: object files, staging files, package record
localStore == <<objects, stagingGz, tempObj, saved>>

\* C32: when the package is already installed and force is not set, install
\* asks; for an answer that is not 'y' (in either case) it returns with the
\* object files, the staging files and the package record as they were, and
\* the run has built no package object, requested no object and saved nothing.
C32_DeclinedOverwriteChangesNothing ==
    [][/\ (runs' = runs + 1 /\ existing_pkg /\ ~install_force) =>
             (ipc' = "prompt" /\ UNCHANGED localStore)
       /\ (ipc = "prompt" /\ overwrite' \notin {"y", "Y"}) =>
             /\ ipc' = "returned"
             /\ UNCHANGED localStore
             /\ pkgobj' = NoTree
             /\ dlReqs' = {}
             /\ ~savedRun'
       /\ ipc = "returned" =>
             (runs' = runs + 1 /\ UNCHANGED localStore)]_vars

\* a second install without force was answered 'n' and returned; the record
\* of the first install is still the installed one although the registry
\* answered the second with another tree
C32_Witness ==
    /\ ipc = "returned"
    /\ overwrite = "n"
    /\ ~install_force
    /\ runs = 2
    /\ saved \in Trees
    /\ contents \in Trees \ {saved}
    /\ ContentsHashOk(pkghash, contents)
    /\ dlReqs = {}
    /\ ~savedRun
====
